---- MODULE Spec2Model ----
(***************************************************************************)
(* LoadBalance: one master rank gathers a vector of angles from every      *)
(* slave rank, re-cuts the combined vector into balanced pieces, sends one *)
(* piece to every slave, and gathers the sines back (src/LoadBalance.cpp). *)
(*                                                                         *)
(* Every MPI rank runs main() with its own copy of the locals, so each     *)
(* local of main() is a function of the rank here.                         *)
(*                                                                         *)
(* A double is kept symbolic: [rank, draw, sin] is the value that rank     *)
(* `rank` drew as its `draw`-th random angle, with sin() applied `sin`     *)
(* times.  Two doubles are equal here only if they are the same draw under *)
(* the same number of sines, so an equality of vectors that holds here     *)
(* holds whatever numbers the draws and the sines are.                     *)
(***************************************************************************)
EXTENDS Integers, Sequences, FiniteSets, TLC

\* ------------------------------------------------------------------ bounds
\* Largest number of ranks mpirun starts (master included).
MaxRanks == 4
\* Upper end of the randomized number of angles per slave (50 in the source).
MaxAngles == 2

\* ------------------------------------------------------- program constants
MASTER == 0
\* Lower end of the randomized number of angles per slave.
MinAngles == 1
\* The double 0.0, which resize() fills with.
Zero == [rank |-> MASTER, draw |-> 0, sin |-> 0]
\* What an out-of-range read of a vector may yield.
Garbage == {Zero, [rank |-> MASTER, draw |-> 1, sin |-> 0]}
\* What an integer division by zero may leave in its result when it does not trap.
DivZeroValues == {0, 1}

VARIABLES
  l_worldSize,     \* number of ranks (the same in every rank)
  eager,           \* whether the MPI library buffers standard-mode sends
  pc,              \* pc[r]: where rank r stands in main()
  l_noAngles,      \* l_noAngles[r]
  l_balancedSize,  \* l_balancedSize[r]
  l_masterVec,     \* rank 0's l_masterVec
  l_tmpVec,        \* rank 0's l_tmpVec
  l_slaveVec,      \* l_slaveVec[r]
  l_i,             \* rank 0's loop index l_i
  l_count,         \* rank 0's read cursor l_count
  chan,            \* chan[<<s, d>>]: messages sent by s to d and not yet received
  log,             \* log[<<s, d>>]: every message s ever sent to d, in order (history)
  gathered         \* l_masterVec as it stood when the gather loop ended (history)

vars == <<l_worldSize, eager, pc, l_noAngles, l_balancedSize, l_masterVec,
          l_tmpVec, l_slaveVec, l_i, l_count, chan, log, gathered>>

Ranks == 0 .. (l_worldSize - 1)
Slaves == 1 .. (l_worldSize - 1)

\* ----------------------------------------------------------------- helpers
\* randomizer< double >( 0.0, 360.0 ) as rank w's j-th draw.
Angle(w, j) == [rank |-> w, draw |-> j, sin |-> 0]

\* sin( x ): one more sine on top of x.
Sin(x) == [x EXCEPT !.sin = @ + 1]

\* std::vector::resize: cut, or fill up with 0.0.
Resize(vec, n) == [j \in 1 .. n |-> IF j <= Len(vec) THEN vec[j] ELSE Zero]

\* Mutant of IntMsg: the count is sent with the datatype of the vectors.
IntMsg_AsDouble(n) == [type |-> "MPI_DOUBLE", data |-> <<n>>]

\* Mutant of DoubleMsg: one element less than announced is sent.
DoubleMsg_OneShort(vec, n) == [type |-> "MPI_DOUBLE", data |-> SubSeq(vec, 1, n - 1)]

\* An MPI message: the datatype and the elements.
IntMsg(n) == [type |-> "MPI_INT", data |-> <<n>>]
DoubleMsg(vec, n) == [type |-> "MPI_DOUBLE", data |-> SubSeq(vec, 1, n)]

\* MPI_Recv of at most count elements of a datatype: whether message m fits.
RecvFits(m, type, count) == m.type = type /\ Len(m.data) <= count

\* MPI_Recv into a buffer: the leading elements are overwritten.
RecvInto(buf, data) ==
  [j \in 1 .. Len(buf) |-> IF j <= Len(data) THEN data[j] ELSE buf[j]]

\* MPI_Send, standard mode: the message is queued behind the earlier ones of
\* the same (source, destination) pair.
Post(s, d, m) ==
  /\ chan' = [chan EXCEPT ![<<s, d>>] = Append(@, m)]
  /\ log' = [log EXCEPT ![<<s, d>>] = Append(@, m)]

\* A blocked MPI_Send returns once the matching receive has taken the message.
SendReturns(s, d) == chan[<<s, d>>] = <<>>

\* Where a rank stands after starting an MPI_Send: past it when the library
\* buffers the message, else in it until the receive is there.
Sending(wait, after) == IF eager THEN after ELSE wait

\* MPI_Recv can return: a message of the pair is there.
Arrived(s, d) == chan[<<s, d>>] # <<>>

\* Mutant of RecvSource: MPI_ANY_SOURCE, whoever has sent is received from.
RecvSource_Any(s) == Ranks

\* The ranks whose messages an MPI_Recv with source argument s matches.
RecvSource(s) == {s}

\* Mutant of Take: a receive empties the queue of the pair.
Take_DropsQueued(s, d) == chan' = [chan EXCEPT ![<<s, d>>] = <<>>]

\* MPI_Recv returns with the oldest message of the pair, the later ones stay.
Take(s, d) == chan' = [chan EXCEPT ![<<s, d>>] = Tail(@)]

\* ------------------------------------------------------- the scatter loops
\* l_masterVec[l_count]: an index past the end reads whatever lies there.
ReadMaster(count, g) ==
  IF count < Len(l_masterVec) THEN l_masterVec[count + 1] ELSE g

\* Mutant of BalancedSize: the size of the last contribution received is taken.
BalancedSize_LastCount(size, n) == l_noAngles[MASTER]

\* Mutant of BalancedSize: the division rounds up.
BalancedSize_RoundsUp(size, n) == (size + n - 2) \div (n - 1)

\* Mutant of BalancedSize: the division counts the master as a worker.
BalancedSize_AllRanks(size, n) == size \div n

\* l_balancedSize = l_masterVec.size() / (l_worldSize - 1), for l_worldSize > 1.
BalancedSize(size, n) == size \div (n - 1)

\* Mutant of IsLastRank: the drain loop compares with l_worldSize.
IsLastRank_WorldSize(i, n) == i = n

\* The while loop's second condition: the rank served is the last one.
IsLastRank(i, n) == i = n - 1

\* for( l_j = 0; l_j < l_balancedSize; l_j++ ) l_tmpVec.push_back( l_masterVec[l_count++] )
\* st = [tmp, count, oob]: the vector built, the cursor, whether a read was out of range.
RECURSIVE ForPush(_, _, _, _)
ForPush(st, j, bsize, g) ==
  IF j < bsize
    THEN ForPush([tmp   |-> Append(st.tmp, ReadMaster(st.count, g)),
                  count |-> st.count + 1,
                  oob   |-> st.oob \/ st.count >= Len(l_masterVec)],
                 j + 1, bsize, g)
    ELSE st

\* while( (l_count != l_masterVec.size()) && (l_i == l_worldSize - 1) ) push_back
\* A cursor already past the end never meets the size again: the loop runs off.
RECURSIVE WhilePush(_, _, _)
WhilePush(st, i, g) ==
  IF st.count # Len(l_masterVec) /\ IsLastRank(i, l_worldSize)
    THEN IF st.count > Len(l_masterVec)
           THEN [st EXCEPT !.oob = TRUE]
           ELSE WhilePush([tmp   |-> Append(st.tmp, ReadMaster(st.count, g)),
                           count |-> st.count + 1,
                           oob   |-> st.oob],
                          i, g)
    ELSE st

\* Mutant of FillChunk: the fixed-size loop alone, without the drain loop.
FillChunk_NoDrain(count, i, bsize, g) ==
  ForPush([tmp |-> <<>>, count |-> count, oob |-> FALSE], 0, bsize, g)

\* One pass of the scatter loop's body up to the sends: l_tmpVec.clear(), the
\* for loop, the while loop.
FillChunk(count, i, bsize, g) ==
  WhilePush(ForPush([tmp |-> <<>>, count |-> count, oob |-> FALSE], 0, bsize, g), i, g)

\* -------------------------------------------------------------------- Init
\* MPI_Init .. MPI_Comm_rank: n ranks, each at the top of its branch.  The
\* locals are not initialized by the source; none is read before it is written.
Init ==
  /\ l_worldSize \in 1 .. MaxRanks
  /\ eager \in BOOLEAN
  /\ pc = [r \in Ranks |->
             IF r = MASTER
               THEN (IF 1 < l_worldSize THEN "G_recvCount" ELSE "repartition")
               ELSE "sendCount"]
  /\ l_noAngles = [r \in Ranks |-> 0]
  /\ l_balancedSize = [r \in Ranks |-> 0]
  /\ l_masterVec = <<>>
  /\ l_tmpVec = <<>>
  /\ l_slaveVec = [r \in Ranks |-> <<>>]
  /\ l_i = 1
  /\ l_count = 0
  /\ chan = [p \in Ranks \X Ranks |-> <<>>]
  /\ log = [p \in Ranks \X Ranks |-> <<>>]
  /\ gathered = <<>>

\* ------------------------------------------------------------------ master
\* Phase G, line 67: receive the number of angles of rank l_i.
M_G_RecvCount ==
  /\ pc[MASTER] = "G_recvCount"
  /\ \E src \in RecvSource(l_i) :
       /\ Arrived(src, MASTER)
       /\ LET m == Head(chan[<<src, MASTER>>]) IN
            IF RecvFits(m, "MPI_INT", 1)
              THEN /\ l_noAngles' = [l_noAngles EXCEPT ![MASTER] = m.data[1]]
                   /\ pc' = [pc EXCEPT ![MASTER] = "G_recvVec"]
              ELSE /\ pc' = [pc EXCEPT ![MASTER] = "aborted"]
                   /\ UNCHANGED l_noAngles
       /\ Take(src, MASTER)
  /\ UNCHANGED <<l_worldSize, eager, l_balancedSize, l_masterVec, l_tmpVec,
                 l_slaveVec, l_i, l_count, log, gathered>>

\* Mutant of AfterLoopBody: the loop stops one rank early.
AfterLoopBody_EndsEarly(i, again, after) ==
  IF i + 1 < l_worldSize - 1 THEN again ELSE after

\* After the body of a loop over the slaves: l_i++ and the loop test.
AfterLoopBody(i, again, after) == IF i + 1 < l_worldSize THEN again ELSE after

\* Mutant of PushAll: the received elements go in front.
PushAll_Front(vec, tmp) == tmp \o vec

\* l_masterVec.push_back of every element of l_tmpVec.
PushAll(vec, tmp) == vec \o tmp

\* Phase G, lines 73-85: resize l_tmpVec, receive the angles, append them.
M_G_RecvVec ==
  /\ pc[MASTER] = "G_recvVec"
  /\ \E src \in RecvSource(l_i) :
       /\ Arrived(src, MASTER)
       /\ LET m == Head(chan[<<src, MASTER>>])
              buf == Resize(l_tmpVec, l_noAngles[MASTER])
          IN IF RecvFits(m, "MPI_DOUBLE", l_noAngles[MASTER])
               THEN /\ l_tmpVec' = RecvInto(buf, m.data)
                    /\ l_masterVec' = PushAll(l_masterVec, l_tmpVec')
                    /\ l_i' = l_i + 1
                    /\ pc' = [pc EXCEPT ![MASTER] =
                                AfterLoopBody(l_i, "G_recvCount", "repartition")]
               ELSE /\ pc' = [pc EXCEPT ![MASTER] = "aborted"]
                    /\ UNCHANGED <<l_tmpVec, l_masterVec, l_i>>
       /\ Take(src, MASTER)
  /\ UNCHANGED <<l_worldSize, eager, l_noAngles, l_balancedSize, l_slaveVec,
                 l_count, log, gathered>>

\* Lines 87-97: l_balancedSize, l_count = 0, entry of the scatter loop.  With
\* one rank the divisor is 0: the division traps, or leaves some value.
M_Repartition ==
  /\ pc[MASTER] = "repartition"
  /\ gathered' = l_masterVec
  /\ l_count' = 0
  /\ l_i' = 1
  /\ IF l_worldSize - 1 = 0
       THEN \E trap \in BOOLEAN, v \in DivZeroValues :
              IF trap
                THEN /\ pc' = [pc EXCEPT ![MASTER] = "crashed"]
                     /\ UNCHANGED l_balancedSize
                ELSE /\ pc' = [pc EXCEPT ![MASTER] = "clear"]
                     /\ l_balancedSize' = [l_balancedSize EXCEPT ![MASTER] = v]
       ELSE /\ l_balancedSize' = [l_balancedSize EXCEPT ![MASTER] =
                                    BalancedSize(Len(l_masterVec), l_worldSize)]
            /\ pc' = [pc EXCEPT ![MASTER] = "S_sendCount"]
  /\ UNCHANGED <<l_worldSize, eager, l_noAngles, l_masterVec, l_tmpVec,
                 l_slaveVec, chan, log>>

\* Phase S, lines 98-109: build l_tmpVec for rank l_i and start sending its size.
\* A read past the end of l_masterVec yields garbage or ends the process.
M_S_SendCount ==
  /\ pc[MASTER] = "S_sendCount"
  /\ \E g \in Garbage :
       LET st == FillChunk(l_count, l_i, l_balancedSize[MASTER], g) IN
         /\ l_tmpVec' = st.tmp
         /\ l_count' = st.count
         /\ \E next \in (IF st.oob THEN {"crashed"} ELSE {})
                          \cup {Sending("S_sendCountWait", "S_sendVec")} :
              /\ pc' = [pc EXCEPT ![MASTER] = next]
              /\ IF next = "crashed"
                   THEN UNCHANGED <<chan, log>>
                   ELSE Post(MASTER, l_i, IntMsg(Len(st.tmp)))
  /\ UNCHANGED <<l_worldSize, eager, l_noAngles, l_balancedSize, l_masterVec,
                 l_slaveVec, l_i, gathered>>

\* Line 109: MPI_Send of the size returns.
M_S_SendCountDone ==
  /\ pc[MASTER] = "S_sendCountWait"
  /\ SendReturns(MASTER, l_i)
  /\ pc' = [pc EXCEPT ![MASTER] = "S_sendVec"]
  /\ UNCHANGED <<l_worldSize, eager, l_noAngles, l_balancedSize, l_masterVec,
                 l_tmpVec, l_slaveVec, l_i, l_count, chan, log, gathered>>

\* Line 112: start sending the balanced vector to rank l_i.
M_S_SendVec ==
  /\ pc[MASTER] = "S_sendVec"
  /\ Post(MASTER, l_i, DoubleMsg(l_tmpVec, Len(l_tmpVec)))
  /\ IF eager
       THEN /\ l_i' = l_i + 1
            /\ pc' = [pc EXCEPT ![MASTER] = AfterLoopBody(l_i, "S_sendCount", "clear")]
       ELSE /\ l_i' = l_i
            /\ pc' = [pc EXCEPT ![MASTER] = "S_sendVecWait"]
  /\ UNCHANGED <<l_worldSize, eager, l_noAngles, l_balancedSize, l_masterVec,
                 l_tmpVec, l_slaveVec, l_count, gathered>>

\* Lines 112-113, 97: MPI_Send of the vector returns; l_i++ and the loop test.
M_S_SendVecDone ==
  /\ pc[MASTER] = "S_sendVecWait"
  /\ SendReturns(MASTER, l_i)
  /\ l_i' = l_i + 1
  /\ pc' = [pc EXCEPT ![MASTER] = AfterLoopBody(l_i, "S_sendCount", "clear")]
  /\ UNCHANGED <<l_worldSize, eager, l_noAngles, l_balancedSize, l_masterVec,
                 l_tmpVec, l_slaveVec, l_count, chan, log, gathered>>

\* Mutant of M_Clear: l_masterVec.clear() is left out.
M_Clear_Forgotten ==
  /\ pc[MASTER] = "clear"
  /\ l_i' = 1
  /\ pc' = [pc EXCEPT ![MASTER] =
              IF 1 < l_worldSize THEN "R_recvCount" ELSE "finalize"]
  /\ UNCHANGED <<l_worldSize, eager, l_noAngles, l_balancedSize, l_masterVec,
                 l_tmpVec, l_slaveVec, l_count, chan, log, gathered>>

\* Lines 116-119: l_masterVec.clear() and the entry of the result loop.
M_Clear ==
  /\ pc[MASTER] = "clear"
  /\ l_masterVec' = <<>>
  /\ l_i' = 1
  /\ pc' = [pc EXCEPT ![MASTER] =
              IF 1 < l_worldSize THEN "R_recvCount" ELSE "finalize"]
  /\ UNCHANGED <<l_worldSize, eager, l_noAngles, l_balancedSize, l_tmpVec,
                 l_slaveVec, l_count, chan, log, gathered>>

\* Phase R, line 121: receive the number of sines of rank l_i.
M_R_RecvCount ==
  /\ pc[MASTER] = "R_recvCount"
  /\ \E src \in RecvSource(l_i) :
       /\ Arrived(src, MASTER)
       /\ LET m == Head(chan[<<src, MASTER>>]) IN
            IF RecvFits(m, "MPI_INT", 1)
              THEN /\ l_noAngles' = [l_noAngles EXCEPT ![MASTER] = m.data[1]]
                   /\ pc' = [pc EXCEPT ![MASTER] = "R_recvVec"]
              ELSE /\ pc' = [pc EXCEPT ![MASTER] = "aborted"]
                   /\ UNCHANGED l_noAngles
       /\ Take(src, MASTER)
  /\ UNCHANGED <<l_worldSize, eager, l_balancedSize, l_masterVec, l_tmpVec,
                 l_slaveVec, l_i, l_count, log, gathered>>

\* Phase R, lines 125-132: resize l_tmpVec, receive the sines, append them.
M_R_RecvVec ==
  /\ pc[MASTER] = "R_recvVec"
  /\ \E src \in RecvSource(l_i) :
       /\ Arrived(src, MASTER)
       /\ LET m == Head(chan[<<src, MASTER>>])
              buf == Resize(l_tmpVec, l_noAngles[MASTER])
          IN IF RecvFits(m, "MPI_DOUBLE", l_noAngles[MASTER])
               THEN /\ l_tmpVec' = RecvInto(buf, m.data)
                    /\ l_masterVec' = PushAll(l_masterVec, l_tmpVec')
                    /\ l_i' = l_i + 1
                    /\ pc' = [pc EXCEPT ![MASTER] =
                                AfterLoopBody(l_i, "R_recvCount", "finalize")]
               ELSE /\ pc' = [pc EXCEPT ![MASTER] = "aborted"]
                    /\ UNCHANGED <<l_tmpVec, l_masterVec, l_i>>
       /\ Take(src, MASTER)
  /\ UNCHANGED <<l_worldSize, eager, l_noAngles, l_balancedSize, l_slaveVec,
                 l_count, log, gathered>>

\* Lines 186-188: MPI_Finalize, return EXIT_SUCCESS.
Finalize(r) ==
  /\ r \in Ranks
  /\ pc[r] = "finalize"
  /\ pc' = [pc EXCEPT ![r] = "done"]
  /\ UNCHANGED <<l_worldSize, eager, l_noAngles, l_balancedSize, l_masterVec,
                 l_tmpVec, l_slaveVec, l_i, l_count, chan, log, gathered>>

\* Lines 134-137, 186-188: print the final vector and leave.
M_Finalize == Finalize(MASTER)

\* ------------------------------------------------------------------- slave
\* Mutant of NoAnglesRange: the range starts at 0.
NoAnglesRange_FromZero == 0 .. MaxAngles

\* randomizer< int >( 1, 50 ): any number of angles of the range.
NoAnglesRange == MinAngles .. MaxAngles

\* Lines 140-146: draw the number of angles and start sending it.
W_SendCount(w) ==
  /\ w \in Slaves
  /\ pc[w] = "sendCount"
  /\ \E n \in NoAnglesRange :
       /\ l_noAngles' = [l_noAngles EXCEPT ![w] = n]
       /\ Post(w, MASTER, IntMsg(n))
  /\ pc' = [pc EXCEPT ![w] = Sending("sendCountWait", "sendVec")]
  /\ UNCHANGED <<l_worldSize, eager, l_balancedSize, l_masterVec, l_tmpVec,
                 l_slaveVec, l_i, l_count, gathered>>

\* Lines 149-154: fill l_slaveVec with l_noAngles random angles and start sending it.
W_SendVec(w) ==
  /\ w \in Slaves
  /\ pc[w] = "sendVec"
  /\ LET vec == [j \in 1 .. l_noAngles[w] |-> Angle(w, j)] IN
       /\ l_slaveVec' = [l_slaveVec EXCEPT ![w] = vec]
       /\ Post(w, MASTER, DoubleMsg(vec, l_noAngles[w]))
  /\ pc' = [pc EXCEPT ![w] = Sending("sendVecWait", "recvSize")]
  /\ UNCHANGED <<l_worldSize, eager, l_noAngles, l_balancedSize, l_masterVec,
                 l_tmpVec, l_i, l_count, gathered>>

\* Line 157: receive the number of angles of the balanced vector.
W_RecvSize(w) ==
  /\ w \in Slaves
  /\ pc[w] = "recvSize"
  /\ \E src \in RecvSource(MASTER) :
       /\ Arrived(src, w)
       /\ LET m == Head(chan[<<src, w>>]) IN
            IF RecvFits(m, "MPI_INT", 1)
              THEN /\ l_balancedSize' = [l_balancedSize EXCEPT ![w] = m.data[1]]
                   /\ pc' = [pc EXCEPT ![w] = "recvVec"]
              ELSE /\ pc' = [pc EXCEPT ![w] = "aborted"]
                   /\ UNCHANGED l_balancedSize
       /\ Take(src, w)
  /\ UNCHANGED <<l_worldSize, eager, l_noAngles, l_masterVec, l_tmpVec,
                 l_slaveVec, l_i, l_count, log, gathered>>

\* Mutant of SinInPlace: the loop starts at the second element.
SinInPlace_FromSecond(vec) == [j \in 1 .. Len(vec) |-> IF j = 1 THEN vec[j] ELSE Sin(vec[j])]

\* Lines 167-175: l_slaveVec[l_j] = sin( l_slaveVec[l_j] ) for every l_j.
SinInPlace(vec) == [j \in 1 .. Len(vec) |-> Sin(vec[j])]

\* Lines 161-175: resize l_slaveVec, receive the balanced vector, take the sines.
W_RecvVec(w) ==
  /\ w \in Slaves
  /\ pc[w] = "recvVec"
  /\ \E src \in RecvSource(MASTER) :
       /\ Arrived(src, w)
       /\ LET m == Head(chan[<<src, w>>])
              buf == Resize(l_slaveVec[w], l_balancedSize[w])
          IN IF RecvFits(m, "MPI_DOUBLE", l_balancedSize[w])
               THEN /\ l_slaveVec' = [l_slaveVec EXCEPT ![w] =
                                        SinInPlace(RecvInto(buf, m.data))]
                    /\ pc' = [pc EXCEPT ![w] = "sendSize"]
               ELSE /\ pc' = [pc EXCEPT ![w] = "aborted"]
                    /\ UNCHANGED l_slaveVec
       /\ Take(src, w)
  /\ UNCHANGED <<l_worldSize, eager, l_noAngles, l_balancedSize, l_masterVec,
                 l_tmpVec, l_i, l_count, log, gathered>>

\* Line 178: start sending the number of sines.
W_SendSize(w) ==
  /\ w \in Slaves
  /\ pc[w] = "sendSize"
  /\ Post(w, MASTER, IntMsg(l_balancedSize[w]))
  /\ pc' = [pc EXCEPT ![w] = Sending("sendSizeWait", "sendSinVec")]
  /\ UNCHANGED <<l_worldSize, eager, l_noAngles, l_balancedSize, l_masterVec,
                 l_tmpVec, l_slaveVec, l_i, l_count, gathered>>

\* Line 181: start sending the sines.
W_SendSinVec(w) ==
  /\ w \in Slaves
  /\ pc[w] = "sendSinVec"
  /\ Post(w, MASTER, DoubleMsg(l_slaveVec[w], l_balancedSize[w]))
  /\ pc' = [pc EXCEPT ![w] = Sending("sendSinVecWait", "finalize")]
  /\ UNCHANGED <<l_worldSize, eager, l_noAngles, l_balancedSize, l_masterVec,
                 l_tmpVec, l_slaveVec, l_i, l_count, gathered>>

\* Lines 186-188 in a slave.
W_Finalize(w) == w \in Slaves /\ Finalize(w)

\* Mutant of AfterSend: after the last send the slave starts over.
AfterSend_StartsOver(at) ==
  CASE at = "sendCountWait" -> "sendVec"
    [] at = "sendVecWait" -> "recvSize"
    [] at = "sendSizeWait" -> "sendSinVec"
    [] at = "sendSinVecWait" -> "sendCount"

\* Where a slave goes on when a send of it returns.
AfterSend(at) ==
  CASE at = "sendCountWait" -> "sendVec"
    [] at = "sendVecWait" -> "recvSize"
    [] at = "sendSizeWait" -> "sendSinVec"
    [] at = "sendSinVecWait" -> "finalize"

\* Lines 146, 154, 178, 181: an MPI_Send of a slave returns.
W_SendDone(w) ==
  /\ w \in Slaves
  /\ pc[w] \in {"sendCountWait", "sendVecWait", "sendSizeWait", "sendSinVecWait"}
  /\ SendReturns(w, MASTER)
  /\ pc' = [pc EXCEPT ![w] = AfterSend(pc[w])]
  /\ UNCHANGED <<l_worldSize, eager, l_noAngles, l_balancedSize, l_masterVec,
                 l_tmpVec, l_slaveVec, l_i, l_count, chan, log, gathered>>

\* ----------------------------------------------------------- specification
Master ==
  \/ M_G_RecvCount
  \/ M_G_RecvVec
  \/ M_Repartition
  \/ M_S_SendCount
  \/ M_S_SendCountDone
  \/ M_S_SendVec
  \/ M_S_SendVecDone
  \/ M_Clear
  \/ M_R_RecvCount
  \/ M_R_RecvVec
  \/ M_Finalize

\* The ranks a slave may have under the bound.
SlaveIds == 1 .. (MaxRanks - 1)

Slave(w) ==
  \/ W_SendCount(w)
  \/ W_SendDone(w)
  \/ W_SendVec(w)
  \/ W_RecvSize(w)
  \/ W_RecvVec(w)
  \/ W_SendSize(w)
  \/ W_SendSinVec(w)
  \/ W_Finalize(w)

Next ==
  \/ Master
  \/ \E w \in SlaveIds : Slave(w)

Spec == Init /\ [][Next]_vars

\* Every rank is a process of its own that the operating system keeps running.
Fairness == WF_vars(Master) /\ \A w \in SlaveIds : WF_vars(Slave(w))

FairSpec == Spec /\ Fairness

\* The runs in which no send is buffered: each blocks until its receive is there.
RendezvousInit == Init /\ ~eager

RendezvousSpec == RendezvousInit /\ [][Next]_vars /\ Fairness

\* ------------------------------------------------------------ observations
\* What the ranks have sent, read off the messages themselves.
SentBy(s, d) == Len(log[<<s, d>>])
ReceivedFrom(s, d) == Len(log[<<s, d>>]) - Len(chan[<<s, d>>])

\* The contribution of slave w: the angles it generated (lines 149-151).
HasContribution(w) == SentBy(w, MASTER) >= 2
Contribution(w) == [j \in 1 .. l_noAngles[w] |-> Angle(w, j)]

\* The chunk the master sent to slave w in Phase S, and its length header.
HasChunk(w) == SentBy(MASTER, w) >= 2
ChunkHeader(w) == log[<<MASTER, w>>][1].data[1]
Chunk(w) == log[<<MASTER, w>>][2].data

\* Concatenation of f[1], ..., f[k].
RECURSIVE Concat(_, _)
Concat(f, k) == IF k = 0 THEN <<>> ELSE Concat(f, k - 1) \o f[k]

RECURSIVE SumLen(_, _)
SumLen(f, k) == IF k = 0 THEN 0 ELSE SumLen(f, k - 1) + Len(f[k])

Contributions == [w \in Slaves |-> Contribution(w)]
Chunks == [w \in Slaves |-> Chunk(w)]

AllChunksSent == \A w \in Slaves : HasChunk(w)
AllDone == \A r \in Ranks : pc[r] = "done"
InPhaseG == pc[MASTER] \in {"G_recvCount", "G_recvVec"}
InPhaseS == pc[MASTER] \in {"S_sendCount", "S_sendCountWait", "S_sendVec", "S_sendVecWait"}
InPhaseR == pc[MASTER] \in {"R_recvCount", "R_recvVec"}

\* ------------------------------------------------------------------ claims
\* Where the chunk of rank w starts in the combined vector: after the chunks of
\* the ranks below it.
ChunkStart(w) == SumLen(Chunks, w - 1)

\* C1: the chunks sent in Phase S to ranks 1..N-1 are contiguous sub-ranges of
\* the combined vector, each starting where the one before ended, and once the
\* last is sent their concatenation in rank order is the combined vector.
C1_ChunksPartition ==
  /\ \A w \in Slaves :
       HasChunk(w) =>
         /\ \A v \in 1 .. (w - 1) : HasChunk(v)
         /\ ChunkStart(w) + Len(Chunk(w)) <= Len(gathered)
         /\ Chunk(w) = SubSeq(gathered, ChunkStart(w) + 1, ChunkStart(w) + Len(Chunk(w)))
  /\ (l_worldSize >= 2 /\ AllChunksSent) => Concat(Chunks, l_worldSize - 1) = gathered

\* C1 witness: three slaves, five elements, every chunk sent.
C1_Witness ==
  /\ l_worldSize = 4
  /\ AllChunksSent
  /\ Len(gathered) = 5
  /\ Len(Chunk(3)) = 3

\* C2: the lengths the scatter loops produce are the closed form: every rank
\* but the last gets total div W elements, the last total div W + total mod W,
\* and the length header sent says the same.
C2_ChunkLengths ==
  \A w \in Slaves :
    HasChunk(w) =>
      LET total == Len(gathered)
          W == l_worldSize - 1
          want == IF w = W THEN (total \div W) + (total % W) ELSE total \div W
      IN Len(Chunk(w)) = want /\ ChunkHeader(w) = want

\* C2 witness: a total that three workers do not divide, all chunks sent.
C2_Witness ==
  /\ l_worldSize = 4
  /\ AllChunksSent
  /\ Len(gathered) % 3 = 1
  /\ ChunkHeader(1) = 1 /\ ChunkHeader(2) = 1 /\ ChunkHeader(3) = 2

\* C3: while the master gathers, its vector is the contributions of the ranks
\* served so far in rank order, and at the end of Phase G it is the contributions
\* of ranks 1..N-1 concatenated, whatever order the slaves ran and sent in.
C3_GatherDeterminism ==
  /\ InPhaseG => l_masterVec = Concat(Contributions, l_i - 1)
  /\ pc[MASTER] = "repartition" => l_masterVec = Concat(Contributions, l_worldSize - 1)
  /\ pc[MASTER] \in {"S_sendCount", "S_sendCountWait", "S_sendVec", "S_sendVecWait",
                     "clear", "R_recvCount", "R_recvVec", "finalize", "done"}
       => gathered = Concat(Contributions, l_worldSize - 1)

\* C3 witness: the end of Phase G with three slaves of different contributions,
\* the messages buffered, so that the slaves sent in any order.
C3_Witness ==
  /\ l_worldSize = 4
  /\ eager
  /\ pc[MASTER] = "repartition"
  /\ l_noAngles[1] = 2 /\ l_noAngles[2] = 1 /\ l_noAngles[3] = 2

\* C4: in a completed run the contributions, the combined vector, the chunks and
\* the result vector all hold the same number of elements.
C4_CountConservation ==
  AllDone =>
    /\ SumLen(Contributions, l_worldSize - 1) = Len(gathered)
    /\ SumLen(Chunks, l_worldSize - 1) = Len(gathered)
    /\ Len(l_masterVec) = Len(gathered)

\* C4 witness: a completed run of three slaves and four elements.
C4_Witness ==
  /\ l_worldSize = 4
  /\ AllDone
  /\ Len(l_masterVec) = 4

\* C5: in a completed run the result vector is the element-wise sine of the
\* combined vector, in the same order.
C5_TransformFidelity ==
  pc[MASTER] = "done" =>
    /\ Len(l_masterVec) = Len(gathered)
    /\ \A i \in 1 .. Len(gathered) : l_masterVec[i] = Sin(gathered[i])

\* C5 witness: a completed run of three slaves and six elements.
C5_Witness ==
  /\ l_worldSize = 4
  /\ pc[MASTER] = "done"
  /\ Len(gathered) = 6
  /\ Len(l_masterVec) = 6

\* C6: with at least one slave, every rank running and every send blocking
\* until its receive is there, every rank reaches its successful exit.
C6_NoDeadlock == l_worldSize >= 2 => <>AllDone

\* C6 witness: a run of three slaves under blocking sends where all have left.
C6_Witness ==
  /\ l_worldSize = 4
  /\ ~eager
  /\ AllDone

\* C7 (as claimed): with the master alone, the run neither crashes nor aborts,
\* sends nothing, and ends with an empty result vector.
C7_MasterAloneCompletes ==
  l_worldSize = 1 =>
    /\ pc[MASTER] \notin {"crashed", "aborted"}
    /\ pc[MASTER] = "done" => l_masterVec = <<>>

\* The master waits in a receive for slave w, and nothing of w is there.
MasterWaitsFor(w) ==
  /\ InPhaseG \/ InPhaseR
  /\ l_i = w
  /\ chan[<<w, MASTER>>] = <<>>

\* C9: the master gets past Phase G only with the contribution of every slave
\* sent, and to its exit only with every result sent; while it waits for a
\* slave that has sent nothing, no step moves it on, whatever the other ranks
\* do: there is no timeout and no way around the missing message.
C9_StarvationBlocks ==
  /\ [](\A w \in Slaves :
          /\ ~InPhaseG => SentBy(w, MASTER) >= 2
          /\ pc[MASTER] \in {"finalize", "done"} => SentBy(w, MASTER) = 4)
  /\ [][\A w \in Slaves :
          MasterWaitsFor(w) =>
            /\ pc'[MASTER] = pc[MASTER]
            /\ l_i' = l_i
            /\ l_masterVec' = l_masterVec]_vars

\* C9 witness: in Phase R the master waits for rank 2, which has not sent its
\* result, while the result of rank 3 is already there.
C9_Witness ==
  /\ l_worldSize = 4
  /\ InPhaseR
  /\ MasterWaitsFor(2)
  /\ pc[2] \in {"recvSize", "recvVec", "sendSize"}
  /\ Len(chan[<<3, MASTER>>]) = 2

\* C10: nothing is sent to any slave before the contribution of every slave is
\* received (count and values), and no result is received from any slave
\* before both messages of every slave's chunk are sent.
C10_PhasesSequential ==
  /\ (\E w \in Slaves : SentBy(MASTER, w) > 0)
       => \A v \in Slaves : ReceivedFrom(v, MASTER) >= 2
  /\ (\E w \in Slaves : ReceivedFrom(w, MASTER) > 2)
       => \A v \in Slaves : SentBy(MASTER, v) = 2

\* C10 witness: the result of rank 1 is received, that of rank 3 is not, and
\* rank 3 had sent its contribution before the master asked for it.
C10_Witness ==
  /\ l_worldSize = 4
  /\ ReceivedFrom(1, MASTER) = 4
  /\ ReceivedFrom(3, MASTER) = 2
  /\ SentBy(MASTER, 3) = 2

\* The (start, length) of every chunk as a function of the total and the
\* number of workers alone.
BoundsOf(total, W) ==
  [w \in 1 .. W |->
     <<(w - 1) * (total \div W),
       IF w = W THEN total - (W - 1) * (total \div W) ELSE total \div W>>]

\* C11: the (start, length) of the chunk of every rank is a function of the
\* total and the number of workers only: it is BoundsOf(total, N-1)[w] however
\* the total was split among the contributing slaves, so two runs with the same
\* workers and the same total cut at the same places.
C11_BoundsDependOnTotalOnly ==
  \A w \in Slaves :
    HasChunk(w) =>
      <<ChunkStart(w), Len(Chunk(w))>> = BoundsOf(Len(gathered), l_worldSize - 1)[w]

\* C11 witness: two slaves contributing 2 and 1 angles get chunks of 1 and 2.
C11_Witness ==
  /\ l_worldSize = 3
  /\ l_noAngles[1] = 2 /\ l_noAngles[2] = 1
  /\ AllChunksSent
  /\ Len(Chunk(1)) = 1 /\ Len(Chunk(2)) = 2

\* C12: within each phase the master serves the slaves one after the other in
\* ascending rank: for ranks i < j, nothing of j is received in Phase G before
\* the count and the values of i are, nothing is sent to j before the header
\* and the chunk of i are, and no result of j is received before both result
\* messages of i are.
C12_AscendingRankOrder ==
  \A i \in Slaves : \A j \in Slaves :
    i < j =>
      /\ ReceivedFrom(j, MASTER) > 0 => ReceivedFrom(i, MASTER) >= 2
      /\ SentBy(MASTER, j) > 0 => SentBy(MASTER, i) = 2
      /\ ReceivedFrom(j, MASTER) > 2 => ReceivedFrom(i, MASTER) = 4

\* C12 witness: in Phase S rank 1 has its header and chunk, rank 2 its header
\* only, rank 3 nothing yet.
C12_Witness ==
  /\ l_worldSize = 4
  /\ SentBy(MASTER, 1) = 2
  /\ SentBy(MASTER, 2) = 1
  /\ SentBy(MASTER, 3) = 0
  /\ ReceivedFrom(3, MASTER) = 2

\* How far a slave is in its single pass, and how many messages it has then
\* sent to the master and taken from it.
SlaveStep(at) ==
  CASE at = "sendCount" -> <<1, 0, 0>>
    [] at = "sendCountWait" -> <<2, 1, 0>>
    [] at = "sendVec" -> <<3, 1, 0>>
    [] at = "sendVecWait" -> <<4, 2, 0>>
    [] at = "recvSize" -> <<5, 2, 0>>
    [] at = "recvVec" -> <<6, 2, 1>>
    [] at = "sendSize" -> <<7, 2, 2>>
    [] at = "sendSizeWait" -> <<8, 3, 2>>
    [] at = "sendSinVec" -> <<9, 3, 2>>
    [] at = "sendSinVecWait" -> <<10, 4, 2>>
    [] at = "finalize" -> <<11, 4, 2>>
    [] at = "done" -> <<12, 4, 2>>
    [] OTHER -> <<0, 0, 0>>

\* The datatypes of the first k messages of a slave: count, values, count, values.
SlaveSendPattern(k) == SubSeq(<<"MPI_INT", "MPI_DOUBLE", "MPI_INT", "MPI_DOUBLE">>, 1, k)

\* C13: a slave runs one pass without loop or retry: it never steps back; where
\* it stands fixes what it has sent and received (one count, then one vector,
\* then the header and the chunk received, then one result length, then one
\* result vector), and the result it sends is as long as the chunk it received
\* and as the length it announced.
C13_SlaveSinglePass ==
  /\ [](\A w \in Slaves :
          LET sent == log[<<w, MASTER>>] IN
            /\ Len(sent) = SlaveStep(pc[w])[2]
            /\ ReceivedFrom(MASTER, w) = SlaveStep(pc[w])[3]
            /\ [k \in 1 .. Len(sent) |-> sent[k].type] = SlaveSendPattern(Len(sent))
            /\ Len(sent) >= 3 => sent[3].data = <<Len(Chunk(w))>>
            /\ Len(sent) = 4 => Len(sent[4].data) = Len(Chunk(w)))
  /\ [][\A w \in Slaves : SlaveStep(pc'[w])[1] >= SlaveStep(pc[w])[1]]_vars

\* C13 witness: a slave that contributed two angles has sent back a result of
\* one element, the length of its chunk, and left.
C13_Witness ==
  /\ l_worldSize = 3
  /\ pc[1] = "done"
  /\ l_noAngles[1] = 2
  /\ Len(Chunk(1)) = 1
  /\ Len(log[<<1, MASTER>>][4].data) = 1

\* The result vectors of the slaves, as sent.
Results == [w \in Slaves |-> log[<<w, MASTER>>][4].data]

\* C14: from the end of Phase G until the last chunk is sent the master only
\* reads l_masterVec (no step changes it, and it is the gathered vector);
\* Phase R then starts from an empty vector, and from there on the vector
\* holds the results received in Phase R and nothing else.
C14_ReadOnlyThenCleared ==
  /\ [](InPhaseS \/ pc[MASTER] = "clear" => l_masterVec = gathered)
  /\ [][pc[MASTER] = "repartition" \/ InPhaseS => l_masterVec' = l_masterVec]_vars
  /\ [](pc[MASTER] = "R_recvCount" /\ l_i = 1 => l_masterVec = <<>>)
  /\ [](InPhaseR \/ pc[MASTER] \in {"finalize", "done"}
          => l_masterVec = Concat(Results, l_i - 1))

\* C14 witness: Phase R has begun with an empty vector after a gather of five.
C14_Witness ==
  /\ l_worldSize = 4
  /\ Len(gathered) = 5
  /\ pc[MASTER] = "R_recvCount"
  /\ l_i = 1
  /\ l_masterVec = <<>>

\* The receive rank r stands in: <<source, datatype, count>>, or <<>> when r is
\* not in a receive.
PendingRecv(r) ==
  IF r = MASTER
    THEN CASE pc[r] \in {"G_recvCount", "R_recvCount"} -> <<l_i, "MPI_INT", 1>>
           [] pc[r] \in {"G_recvVec", "R_recvVec"} -> <<l_i, "MPI_DOUBLE", l_noAngles[r]>>
           [] OTHER -> <<>>
    ELSE CASE pc[r] = "recvSize" -> <<MASTER, "MPI_INT", 1>>
           [] pc[r] = "recvVec" -> <<MASTER, "MPI_DOUBLE", l_balancedSize[r]>>
           [] OTHER -> <<>>

\* C15: no rank ever aborts on a message that does not fit, and whenever a rank
\* stands in a receive and a message of that pair is there, the first one is of
\* the kind awaited: one integer for a count, and for values a vector of doubles
\* exactly as long as the count received just before; on every pair counts and
\* values alternate, each vector as long as the count sent before it, and only
\* the master and a slave ever exchange messages.
C15_NoProtocolViolation ==
  \A r \in Ranks :
    /\ pc[r] # "aborted"
    /\ LET rcv == PendingRecv(r) IN
         (rcv # <<>> /\ chan[<<rcv[1], r>>] # <<>>) =>
           LET m == Head(chan[<<rcv[1], r>>]) IN
             /\ m.type = rcv[2]
             /\ Len(m.data) = rcv[3]
    /\ \A s \in Ranks :
         log[<<s, r>>] # <<>> => (s = MASTER) # (r = MASTER)
    /\ \A s \in Ranks :
         \A k \in 1 .. Len(log[<<s, r>>]) :
           LET m == log[<<s, r>>][k] IN
             IF k % 2 = 1
               THEN m.type = "MPI_INT" /\ Len(m.data) = 1
               ELSE m.type = "MPI_DOUBLE" /\ Len(m.data) = log[<<s, r>>][k - 1].data[1]

\* C15 witness: the master stands in the receive of the two values of rank 2
\* with that vector first in the queue, while the count and the values of rank 3
\* are queued under the same tag.
C15_Witness ==
  /\ l_worldSize = 4
  /\ pc[MASTER] = "G_recvVec"
  /\ l_i = 2
  /\ l_noAngles[MASTER] = 2
  /\ Len(chan[<<2, MASTER>>]) = 1
  /\ Len(chan[<<3, MASTER>>]) = 2

\* The master has built the chunk of the last rank (its header is sent in the
\* same step).
LastChunkBuilt == l_worldSize >= 2 /\ SentBy(MASTER, l_worldSize - 1) >= 1

\* C16: in Phase S the cursor l_count never passes the length of the combined
\* vector, the chunk about to be built reads l_masterVec at indices below that
\* length only, the master never crashes on such a read, and with at least one
\* slave the cursor is at the length exactly from the moment the chunk of the
\* last rank is built.
C16_CursorInBounds ==
  /\ l_count <= Len(gathered)
  /\ l_worldSize >= 2 => pc[MASTER] # "crashed"
  /\ pc[MASTER] = "S_sendCount" =>
       \A g \in Garbage :
         LET st == FillChunk(l_count, l_i, l_balancedSize[MASTER], g) IN
           ~st.oob /\ st.count <= Len(l_masterVec)
  /\ l_worldSize >= 2 /\ (InPhaseS \/ pc[MASTER] = "clear") =>
       (l_count = Len(gathered) <=> LastChunkBuilt)

\* C16 witness: the chunk of the last of three slaves is built from a vector of
\* five, the cursor having stood at 2 before.
C16_Witness ==
  /\ l_worldSize = 4
  /\ Len(gathered) = 5
  /\ InPhaseS
  /\ l_i = 3
  /\ LastChunkBuilt
  /\ l_count = 5
  /\ Len(l_tmpVec) = 3

\* C17: every slave contributing between 1 and the upper end, with at least one
\* slave the total is at least N-1, l_balancedSize at least 1, and so every
\* length header is at least 1 and no vector sent by the master or by a slave,
\* hence none received, is empty.
C17_NoEmptyPayload ==
  /\ \A w \in Slaves :
       pc[w] # "sendCount" => l_noAngles[w] \in MinAngles .. MaxAngles
  /\ (l_worldSize >= 2 /\ ~InPhaseG /\ pc[MASTER] # "repartition") =>
       /\ Len(gathered) >= l_worldSize - 1
       /\ l_balancedSize[MASTER] >= 1
  /\ \A s \in Ranks : \A r \in Ranks :
       \A k \in 1 .. Len(log[<<s, r>>]) :
         LET m == log[<<s, r>>][k] IN
           /\ m.data # <<>>
           /\ m.type = "MPI_INT" => m.data[1] >= 1

\* C17 witness: three slaves contributed one angle each, the least there can
\* be, and every one got a chunk of one.
C17_Witness ==
  /\ l_worldSize = 4
  /\ Len(gathered) = 3
  /\ AllDone
  /\ \A w \in Slaves : Len(Chunk(w)) = 1

\* Where the master stands: the phase, the rank served, the call within the body.
MasterStep(at, i) ==
  CASE at = "G_recvCount" -> <<1, i, 0>>
    [] at = "G_recvVec" -> <<1, i, 1>>
    [] at = "repartition" -> <<2, 0, 0>>
    [] at = "S_sendCount" -> <<3, i, 0>>
    [] at = "S_sendCountWait" -> <<3, i, 1>>
    [] at = "S_sendVec" -> <<3, i, 2>>
    [] at = "S_sendVecWait" -> <<3, i, 3>>
    [] at = "clear" -> <<4, 0, 0>>
    [] at = "R_recvCount" -> <<5, i, 0>>
    [] at = "R_recvVec" -> <<5, i, 1>>
    [] at = "finalize" -> <<6, 0, 0>>
    [] at = "done" -> <<7, 0, 0>>
    [] OTHER -> <<8, 0, 0>>

\* Lexicographic order of two positions of the master.
StepBefore(a, b) ==
  \/ a[1] < b[1]
  \/ a[1] = b[1] /\ a[2] < b[2]
  \/ a[1] = b[1] /\ a[2] = b[2] /\ a[3] < b[3]

\* What the drawn numbers of angles alone make of a run: the combined vector,
\* the chunk of every slave, the result vector.
OutcomeOf(n, noAngles) ==
  LET W == n - 1
      drawn == [w \in 1 .. W |-> [j \in 1 .. noAngles[w] |-> Angle(w, j)]]
      combined == Concat(drawn, W)
      cut == BoundsOf(Len(combined), W)
  IN  [CombinedCollection |-> combined,
       chunks |-> [w \in 1 .. W |->
                     SubSeq(combined, cut[w][1] + 1, cut[w][1] + cut[w][2])],
       ResultCollection |-> [k \in 1 .. Len(combined) |-> Sin(combined[k])]]

\* C18: whether a standard-mode send waits for its receive or is buffered and
\* returns at once changes nothing of the outcome. In both modes, with at least
\* one slave, no state short of the exit of every rank is stuck and every step
\* moves one rank forward and none back, so that every run ends; and at the end
\* the combined vector, the chunks and the result vector are what the numbers
\* of angles drawn make them, the mode having no part in it.
C18_SendModeIndependent ==
  /\ [](l_worldSize >= 2 => (AllDone \/ ENABLED Next))
  /\ [][/\ \A w \in Slaves : SlaveStep(pc'[w])[1] >= SlaveStep(pc[w])[1]
        /\ \/ StepBefore(MasterStep(pc[MASTER], l_i), MasterStep(pc'[MASTER], l_i'))
           \/ /\ MasterStep(pc[MASTER], l_i) = MasterStep(pc'[MASTER], l_i')
              /\ \E w \in Slaves : SlaveStep(pc'[w])[1] > SlaveStep(pc[w])[1]]_vars
  /\ [](l_worldSize >= 2 /\ AllDone =>
          /\ gathered = OutcomeOf(l_worldSize, l_noAngles).CombinedCollection
          /\ Chunks = OutcomeOf(l_worldSize, l_noAngles).chunks
          /\ l_masterVec = OutcomeOf(l_worldSize, l_noAngles).ResultCollection)

\* C18 witness: a run of three slaves under buffered sends where all have
\* left, with five elements combined and returned.
C18_Witness ==
  /\ l_worldSize = 4
  /\ eager
  /\ AllDone
  /\ Len(gathered) = 5
  /\ Len(l_masterVec) = 5

====
